---- MODULE Spec2Model ----
(***************************************************************************)
(* Analytics layer of the GCS OpEx command center (src/app.py):            *)
(*   - plot_enhanced_funnel        (funnel aggregation, conversion rates)  *)
(*   - plot_process_control_chart  (mean, std, control limits, outliers)   *)
(*   - generate_master_data        (labor-mix clip-then-normalize step)    *)
(* pandas floats are modelled exactly: a float is a fraction num/den, with *)
(* den = 0 standing for the IEEE specials (0/0 = NaN, x/0 = +-inf).        *)
(***************************************************************************)
EXTENDS Integers, Sequences, FiniteSets

VARIABLES
  pipeline_df,    \* plot_enhanced_funnel's input: rows [Stage, Est_Value_USD_yr]
  stage_counts,   \* plot_enhanced_funnel's result table (<<>> before the call)
  metrics_df,     \* plot_process_control_chart's input: the column df[metric]
  chart,          \* what plot_process_control_chart computed
  ai_adoption_data,     \* generate_master_data: the drawn labor-mix rows
  ai_adoption_df,       \* generate_master_data: the table after .clip(0)
  ai_adoption_df_norm,  \* generate_master_data: the normalized table
  initiatives_df,  \* plot_portfolio_priority_matrix's input table
  portfolio_fig,   \* the figure plot_portfolio_priority_matrix returned
  metrics_month,   \* the Month column of plot_process_control_chart's input
  labor_mix_fig,   \* the figure plot_digital_labor_mix returned
  team_df,         \* plot_talent_capability_matrix's input table
  talent_fig       \* the figure plot_talent_capability_matrix returned

vars == <<pipeline_df, stage_counts, metrics_df, chart,
          ai_adoption_data, ai_adoption_df, ai_adoption_df_norm,
          initiatives_df, portfolio_fig, metrics_month, labor_mix_fig,
          team_df, talent_fig>>

funnelVars == <<pipeline_df, stage_counts>>

chartVars == <<metrics_df, chart>>

laborVars == <<ai_adoption_data, ai_adoption_df, ai_adoption_df_norm>>

portfolioVars == <<initiatives_df, portfolio_fig>>

talentVars == <<team_df, talent_fig>>

\* the tables and figures of the other dashboard sections
restVars == <<portfolioVars, labor_mix_fig, talentVars>>

-----------------------------------------------------------------------------
(* Bounds *)
MaxOpps == 5

EstValues == {1, 2}

\* metric samples appended one by one, after an optional stable history
MaxSamples == 3

RunLen == 10

MetricValues == {-1, 0, 4, 5}

\* labor-mix rows drawn by the generator
MaxRows == 2

RawValues == {-1, 0, 1, 3}

\* initiative rows of the portfolio
MaxInits == 3

RoiValues == {100, 200, 300}

PercentValues == {20, 50, 80}

\* team rows
MaxTeam == 2

\* rows over all five tables when the five plot functions run together
CallRows == 2

-----------------------------------------------------------------------------
(* Floats as exact fractions *)
NaN == [num |-> 0, den |-> 0]

Num(i) == [num |-> i, den |-> 1]

IsNaN(x) == x.den = 0 /\ x.num = 0

IsInf(x) == x.den = 0 /\ x.num # 0

IsFinite(x) == x.den # 0

Sgn(i) == IF i > 0 THEN 1 ELSE IF i < 0 THEN -1 ELSE 0

\* float / float (IEEE: no fault; x/0 is +-inf, 0/0 and anything with NaN is NaN)
FDiv(x, y) ==
  IF IsNaN(x) \/ IsNaN(y) THEN NaN
  ELSE IF IsInf(x) /\ IsInf(y) THEN NaN
  ELSE IF IsInf(x) THEN [num |-> x.num * Sgn(y.num) * Sgn(y.den) , den |-> 0]
  ELSE IF IsInf(y) THEN Num(0)
  ELSE IF y.num = 0 THEN [num |-> Sgn(x.num) * Sgn(x.den), den |-> 0]
  ELSE IF y.num > 0 THEN [num |-> x.num * y.den, den |-> x.den * y.num]
  ELSE [num |-> -(x.num * y.den), den |-> -(x.den * y.num)]

\* float * integer constant
FMul(x, c) == IF IsFinite(x) THEN [num |-> x.num * c, den |-> x.den]
              ELSE [num |-> x.num * Sgn(c), den |-> 0]

\* numeric equality of two floats (NaN equals nothing)
FEq(x, y) ==
  IF IsNaN(x) \/ IsNaN(y) THEN FALSE
  ELSE IF IsInf(x) \/ IsInf(y) THEN IsInf(x) /\ IsInf(y) /\ Sgn(x.num) = Sgn(y.num)
  ELSE x.num * y.den = y.num * x.den

-----------------------------------------------------------------------------
(* plot_enhanced_funnel *)
STAGES == <<"1. Identification", "2. Validation", "3. Scoping", "4. Approved Backlog">>

StageSet == {STAGES[i] : i \in DOMAIN STAGES}

RECURSIVE SumValue(_)
SumValue(rows) ==
  IF rows = <<>> THEN 0
  ELSE Head(rows).Est_Value_USD_yr + SumValue(Tail(rows))

\* df.groupby('Stage').agg(Count=('OpportunityID','count'), Value=('Est_Value_USD_yr','sum')):
\* one row per stage that occurs in df, none for a stage that does not.
GroupByStage(df) ==
  [s \in {df[i].Stage : i \in DOMAIN df} |->
     LET rows == SelectSeq(df, LAMBDA r : r.Stage = s)
     IN  [Count |-> Len(rows), Value |-> SumValue(rows)]]

\* .reindex(order).reset_index(): a label absent from the index gets NaN in every column.
Reindex(grp, order) ==
  [i \in DOMAIN order |->
     IF order[i] \in DOMAIN grp
     THEN [Stage |-> order[i], Count |-> Num(grp[order[i]].Count),
           Value |-> Num(grp[order[i]].Value)]
     ELSE [Stage |-> order[i], Count |-> NaN, Value |-> NaN]]

\* Series.shift(1): first entry NaN, entry i is the previous entry.
Shift1(col) == [i \in DOMAIN col |-> IF i = 1 THEN NaN ELSE col[i - 1]]

FillNa0(col, v) == col

\* Series.fillna(v)
FillNa(col, v) == [i \in DOMAIN col |-> IF IsNaN(col[i]) THEN v ELSE col[i]]

ConversionRateFirst(count) ==
  FillNa([i \in DOMAIN count |-> FMul(FDiv(count[i], count[1]), 100)], Num(100))

\* (Count / Count.shift(1) * 100).fillna(100)
ConversionRate(count) ==
  LET prev == Shift1(count)
  IN  FillNa([i \in DOMAIN count |-> FMul(FDiv(count[i], prev[i]), 100)], Num(100))

EnhancedFunnel(df) ==
  LET agg   == Reindex(GroupByStage(df), STAGES)
      count == [i \in DOMAIN agg |-> agg[i].Count]
      rate  == ConversionRate(count)
  IN  [i \in DOMAIN agg |->
         [Stage |-> agg[i].Stage, Count |-> agg[i].Count, Value |-> agg[i].Value,
          Conversion_Rate |-> rate[i]]]


-----------------------------------------------------------------------------
(* Reals of the control chart.  Every quantity of one chart is                *)
(* (a + k * sqrt(r)) / d for integers a, k and a common r >= 0, d > 0;        *)
(* d = 0 stands for NaN.                                                      *)
RNaN == [a |-> 0, k |-> 0, r |-> 0, d |-> 0]

RIsNaN(x) == x.d = 0

RInt(i) == [a |-> i, k |-> 0, r |-> 0, d |-> 1]

\* the same number over the radicand and denominator of y
RLift(x, y) ==
  IF x.r = 0 /\ x.k = 0 /\ x.d = 1 /\ ~RIsNaN(y)
  THEN [a |-> x.a * y.d, k |-> 0, r |-> y.r, d |-> y.d]
  ELSE x

RAdd(x, y) ==
  IF RIsNaN(x) \/ RIsNaN(y) THEN RNaN
  ELSE LET u == RLift(x, y)
           v == RLift(y, x)
       IN  [a |-> u.a + v.a, k |-> u.k + v.k, r |-> u.r, d |-> u.d]

RScale(c, x) == IF RIsNaN(x) THEN RNaN ELSE [a |-> c * x.a, k |-> c * x.k, r |-> x.r, d |-> x.d]

RSub(x, y) == RAdd(x, RScale(-1, y))

\* sign of a + k * sqrt(r), decided on integers
RSign(x) ==
  IF x.k = 0 \/ x.r = 0 THEN Sgn(x.a)
  ELSE IF x.a = 0 THEN Sgn(x.k)
  ELSE IF Sgn(x.a) = Sgn(x.k) THEN Sgn(x.a)
  ELSE IF x.k * x.k * x.r > x.a * x.a THEN Sgn(x.k)
  ELSE IF x.k * x.k * x.r < x.a * x.a THEN Sgn(x.a)
  ELSE 0

RGe(x, y) == ~RIsNaN(x) /\ ~RIsNaN(y) /\ RSign(RSub(x, y)) >= 0

\* x > y as floats compare: false when either side is NaN
RGt(x, y) == ~RIsNaN(x) /\ ~RIsNaN(y) /\ RSign(RSub(x, y)) > 0

REq(x, y) == ~RIsNaN(x) /\ ~RIsNaN(y) /\ RSign(RSub(x, y)) = 0

RECURSIVE SumSeq(_)
SumSeq(col) == IF col = <<>> THEN 0 ELSE Head(col) + SumSeq(Tail(col))

\* sum of (n*x - S)^2 = n^2 * sum of squared deviations from the mean S/n
RECURSIVE SumSqDev(_, _, _)
SumSqDev(col, n, S) ==
  IF col = <<>> THEN 0
  ELSE (n * Head(col) - S) * (n * Head(col) - S) + SumSqDev(Tail(col), n, S)

\* radicand and denominator shared by the numbers of one series
Radicand(col) ==
  LET n == Len(col) IN IF n < 2 THEN 0 ELSE (n - 1) * SumSqDev(col, n, SumSeq(col))

Denom(col) == LET n == Len(col) IN IF n < 2 THEN 1 ELSE n * (n - 1)

SeriesMeanBiased(col) ==
  LET n == Len(col)
  IN  IF n = 0 THEN RNaN
      ELSE [a |-> SumSeq(col) * n, k |-> 0, r |-> Radicand(col), d |-> Denom(col)]

\* Series.mean(): NaN for an empty series, else sum / n
SeriesMean(col) ==
  LET n == Len(col)
  IN  IF n = 0 THEN RNaN
      ELSE IF n = 1 THEN RInt(col[1])
      ELSE [a |-> SumSeq(col) * (n - 1), k |-> 0, r |-> Radicand(col), d |-> Denom(col)]

\* Series.std(): sample standard deviation (ddof = 1); NaN when n < 2
SeriesStd(col) ==
  IF Len(col) < 2 THEN RNaN
  ELSE [a |-> 0, k |-> 1, r |-> Radicand(col), d |-> Denom(col)]

PyMaxNoClamp(i, x) == x

\* Python's max(i, x) for an int i and a float x: x if x > i, else i
\* (so max(0, NaN) is 0)
PyMax(i, x) == IF RGt(x, RInt(i)) THEN x ELSE RInt(i)

OutlierMaskGe(col, limit) == {i \in DOMAIN col : RGe(RInt(col[i]), limit)}

\* df[metric] > ucl: the rows of the boolean mask
OutlierMask(col, limit) == {i \in DOMAIN col : RGt(RInt(col[i]), limit)}

ProcessControlChart(col) ==
  LET m == SeriesMean(col)
      s == SeriesStd(col)
      u == RAdd(m, RScale(3, s))
  IN  [computed |-> TRUE,
       outcome  |-> "fig",
       mean     |-> m,
       std_dev  |-> s,
       ucl      |-> u,
       lcl      |-> PyMax(0, RSub(m, RScale(3, s))),
       outliers |-> OutlierMask(col, u)]

NoChart ==
  [computed |-> FALSE, outcome |-> "none", mean |-> RNaN, std_dev |-> RNaN,
   ucl |-> RNaN, lcl |-> RNaN, outliers |-> {}]

-----------------------------------------------------------------------------
(* generate_master_data: labor-mix clip-then-normalize *)
LABELS == <<"Manual", "AI_Assisted", "Fully_Agentic">>

LabelSet == {LABELS[i] : i \in DOMAIN LABELS}

ClipNone(df, lo) == df

\* DataFrame.clip(lo): every cell below lo becomes lo
Clip(df, lo) ==
  [i \in DOMAIN df |-> [c \in DOMAIN df[i] |-> IF df[i][c] < lo THEN lo ELSE df[i][c]]]

\* x.sum() over the row's three columns
RowSum(row) == row[LABELS[1]] + row[LABELS[2]] + row[LABELS[3]]

\* lambda x: x / x.sum() * 100, on one row (float division)
NormalizeRow(row) ==
  [c \in DOMAIN row |-> FMul(FDiv(Num(row[c]), Num(RowSum(row))), 100)]

\* df.apply(lambda x: x / x.sum() * 100, axis=1)
ApplyRows(df) == [i \in DOMAIN df |-> NormalizeRow(df[i])]

-----------------------------------------------------------------------------
(* plot_portfolio_priority_matrix *)
STATUS_COLORS == [s \in {"On Track", "At Risk", "Blocked"} |->
                    IF s = "On Track" THEN "#2e7d32"
                    ELSE IF s = "At Risk" THEN "#ffc107" ELSE "#d32f2f"]

\* Series.map(dict): the dict's value, NaN (here "nan") for a key it lacks
MapStatus(s) == IF s \in DOMAIN STATUS_COLORS THEN STATUS_COLORS[s] ELSE "nan"

\* df[name] = column: the table itself gets (or overwrites) the column
SetColumn(df, name, col) ==
  [i \in DOMAIN df |->
     [c \in DOMAIN df[i] \cup {name} |-> IF c = name THEN col[i] ELSE df[i][c]]]

\* Series.mean() of an integer column: sum / n, NaN (0/0) for an empty one
ColumnMean(df, name) ==
  [num |-> SumSeq([i \in DOMAIN df |-> df[i][name]]), den |-> Len(df)]

\* float * (p / q), for the literals 1.5 = 3/2 and 0.5 = 1/2
FMulFrac(x, p, q) == IF IsFinite(x) THEN [num |-> x.num * p, den |-> x.den * q] ELSE x

QuadrantAnnotationsSwapped(avg_roi, avg_complete) ==
  { [x |-> FMulFrac(avg_roi, 3, 2), y |-> FMulFrac(avg_complete, 3, 2), text |-> "Monitor & Complete"],
    [x |-> FMulFrac(avg_roi, 1, 2), y |-> FMulFrac(avg_complete, 3, 2), text |-> "Strategic Focus"],
    [x |-> FMulFrac(avg_roi, 1, 2), y |-> FMulFrac(avg_complete, 1, 2), text |-> "Nurture & Develop"],
    [x |-> FMulFrac(avg_roi, 3, 2), y |-> FMulFrac(avg_complete, 1, 2), text |-> "Quick Wins"] }

\* the four fig.add_annotation calls (text without its markup)
QuadrantAnnotations(avg_roi, avg_complete) ==
  { [x |-> FMulFrac(avg_roi, 3, 2), y |-> FMulFrac(avg_complete, 3, 2), text |-> "Monitor & Complete"],
    [x |-> FMulFrac(avg_roi, 1, 2), y |-> FMulFrac(avg_complete, 3, 2), text |-> "Quick Wins"],
    [x |-> FMulFrac(avg_roi, 1, 2), y |-> FMulFrac(avg_complete, 1, 2), text |-> "Nurture & Develop"],
    [x |-> FMulFrac(avg_roi, 3, 2), y |-> FMulFrac(avg_complete, 1, 2), text |-> "Strategic Focus"] }

\* the returned figure, computed from the table after the Status_Color write
PortfolioFigure(df) ==
  LET avg_roi      == ColumnMean(df, "Expected_Annual_ROI_USD")
      avg_complete == ColumnMean(df, "Percent_Complete")
  IN  [drawn       |-> TRUE,
       markers     |-> [i \in DOMAIN df |->
                          [x |-> Num(df[i].Expected_Annual_ROI_USD),
                           y |-> Num(df[i].Percent_Complete),
                           color |-> df[i].Status_Color]],
       vline       |-> avg_roi,
       hline       |-> avg_complete,
       annotations |-> QuadrantAnnotations(avg_roi, avg_complete)]

NoFigure ==
  [drawn |-> FALSE, markers |-> <<>>, vline |-> NaN, hline |-> NaN, annotations |-> {}]

-----------------------------------------------------------------------------
(* plot_process_control_chart, line 165: the Month column *)
MonthCell(i) == [dtype |-> "datetime64[ns]", month |-> i]

\* pd.to_datetime on a column: every cell as a timestamp of the same month
ToDatetime(col) == [i \in DOMAIN col |-> [dtype |-> "datetime64[ns]", month |-> col[i].month]]

-----------------------------------------------------------------------------
(* plot_digital_labor_mix *)
\* px.area(df, x='Month', y=[...]): one trace per labor type, read from df
LaborMixFigure(df) ==
  [drawn  |-> TRUE,
   traces |-> [c \in LabelSet |-> [i \in DOMAIN df |-> df[i][c]]],
   yrange |-> <<0, 100>>]

NoLaborMixFigure ==
  [drawn |-> FALSE, traces |-> [c \in LabelSet |-> <<>>], yrange |-> <<0, 0>>]

-----------------------------------------------------------------------------
(* plot_talent_capability_matrix *)
BELTS == {"Yellow Belt", "Green Belt", "Black Belt"}

\* belt_map
BeltMap(b) == IF b = "Yellow Belt" THEN 1 ELSE IF b = "Green Belt" THEN 2 ELSE 3

\* {True: 'circle', False: 'x-thin-open'}
ClearanceSymbol(c) == IF c THEN "circle" ELSE "x-thin-open"

\* lines 192-193: both derived columns are written into the table given
WithTalentColumns(df) ==
  LET df1 == SetColumn(df, "LSS_Numeric", [i \in DOMAIN df |-> BeltMap(df[i].LSS_Belt)])
  IN  SetColumn(df1, "Clearance_Symbol",
                [i \in DOMAIN df |-> ClearanceSymbol(df[i].USFed_Cleared)])

TalentFigure(df) ==
  [drawn  |-> TRUE,
   points |-> [i \in DOMAIN df |->
                 [x |-> df[i].LSS_Numeric, symbol |-> df[i].Clearance_Symbol]]]

NoTalentFigure == [drawn |-> FALSE, points |-> <<>>]

-----------------------------------------------------------------------------
Init ==
  /\ pipeline_df = <<>>
  /\ stage_counts = <<>>
  /\ metrics_df = <<>>
  /\ chart = NoChart
  /\ ai_adoption_data = <<>>
  /\ ai_adoption_df = <<>>
  /\ ai_adoption_df_norm = <<>>
  /\ initiatives_df = <<>>
  /\ portfolio_fig = NoFigure
  /\ metrics_month = <<>>
  /\ labor_mix_fig = NoLaborMixFigure
  /\ team_df = <<>>
  /\ talent_fig = NoTalentFigure

\* DataProvider: one more opportunity row in the pipeline table
AddOpportunity ==
  /\ Len(pipeline_df) < MaxOpps
  /\ stage_counts = <<>>
  /\ \E s \in StageSet, v \in EstValues :
       pipeline_df' = Append(pipeline_df, [Stage |-> s, Est_Value_USD_yr |-> v])
  /\ UNCHANGED <<stage_counts, chartVars, laborVars, restVars, metrics_month>>

plot_enhanced_funnel ==
  /\ stage_counts = <<>>
  /\ stage_counts' = EnhancedFunnel(pipeline_df)
  /\ UNCHANGED <<pipeline_df, chartVars, laborVars, restVars, metrics_month>>

NextFunnel == AddOpportunity \/ plot_enhanced_funnel

SpecFunnel == Init /\ [][NextFunnel]_vars

-----------------------------------------------------------------------------
\* number of samples that came as the stable history
HistoryLen == IF Len(metrics_df) >= RunLen THEN RunLen ELSE 0

\* DataProvider: a stable history of RunLen equal samples
LoadHistory ==
  /\ metrics_df = <<>>
  /\ ~chart.computed
  /\ \E v \in MetricValues : metrics_df' = [i \in 1..RunLen |-> v]
  /\ metrics_month' = [i \in 1..RunLen |-> MonthCell(i)]
  /\ UNCHANGED <<funnelVars, chart, laborVars, restVars>>

\* DataProvider: one more monthly sample of the metric
AddSample ==
  /\ ~chart.computed
  /\ Len(metrics_df) - HistoryLen < MaxSamples
  /\ \E v \in MetricValues : metrics_df' = Append(metrics_df, v)
  /\ metrics_month' = Append(metrics_month, MonthCell(Len(metrics_month) + 1))
  /\ UNCHANGED <<funnelVars, chart, laborVars, restVars>>

plot_process_control_chart ==
  /\ ~chart.computed
  /\ metrics_month' = ToDatetime(metrics_month)
  /\ chart' = ProcessControlChart(metrics_df)
  /\ UNCHANGED <<funnelVars, metrics_df, laborVars, restVars>>

NextChart == LoadHistory \/ AddSample \/ plot_process_control_chart

SpecChart == Init /\ [][NextChart]_vars

-----------------------------------------------------------------------------
\* generate_master_data, lines 91-96: one more drawn labor-mix row
DrawLaborMixRow ==
  /\ Len(ai_adoption_data) < MaxRows
  /\ ai_adoption_df_norm = <<>>
  /\ \E row \in [LabelSet -> RawValues] :
       ai_adoption_data' = Append(ai_adoption_data, row)
  /\ UNCHANGED <<funnelVars, chartVars, ai_adoption_df, ai_adoption_df_norm, restVars, metrics_month>>

\* generate_master_data, lines 97-99: build the table, clip it, normalize it
generate_master_data ==
  /\ ai_adoption_data # <<>>
  /\ ai_adoption_df_norm = <<>>
  /\ ai_adoption_df' = Clip(ai_adoption_data, 0)
  /\ ai_adoption_df_norm' = ApplyRows(Clip(ai_adoption_data, 0))
  /\ UNCHANGED <<funnelVars, chartVars, ai_adoption_data, restVars, metrics_month>>

NextLabor == DrawLaborMixRow \/ generate_master_data

SpecLabor == Init /\ [][NextLabor]_vars

-----------------------------------------------------------------------------
\* generate_master_data, lines 60-68: one more initiative row
AddInitiative ==
  /\ Len(initiatives_df) < MaxInits
  /\ ~portfolio_fig.drawn
  /\ \E roi \in RoiValues, pct \in PercentValues, st \in DOMAIN STATUS_COLORS :
       initiatives_df' = Append(initiatives_df,
         [Expected_Annual_ROI_USD |-> roi, Percent_Complete |-> pct, Status |-> st])
  /\ UNCHANGED <<funnelVars, chartVars, metrics_month, laborVars, portfolio_fig,
                 labor_mix_fig, talentVars>>

\* line 118 writes the Status_Color column into the table it was given
plot_portfolio_priority_matrix ==
  LET df == SetColumn(initiatives_df, "Status_Color",
                      [i \in DOMAIN initiatives_df |-> MapStatus(initiatives_df[i].Status)])
  IN  /\ initiatives_df' = df
      /\ portfolio_fig' = PortfolioFigure(df)
      /\ UNCHANGED <<funnelVars, chartVars, metrics_month, laborVars,
                     labor_mix_fig, talentVars>>

NextPortfolio == AddInitiative \/ plot_portfolio_priority_matrix

SpecPortfolio == Init /\ [][NextPortfolio]_vars

-----------------------------------------------------------------------------
\* the labor-mix chart reads the normalized table and writes nothing to it
plot_digital_labor_mix ==
  /\ ~labor_mix_fig.drawn
  /\ labor_mix_fig' = LaborMixFigure(ai_adoption_df_norm)
  /\ UNCHANGED <<funnelVars, chartVars, metrics_month, laborVars, portfolioVars, talentVars>>

\* generate_master_data, lines 102-110: one more team member row
AddTeamMember ==
  /\ Len(team_df) < MaxTeam
  /\ ~talent_fig.drawn
  /\ \E b \in BELTS, c \in BOOLEAN :
       team_df' = Append(team_df, [LSS_Belt |-> b, USFed_Cleared |-> c])
  /\ UNCHANGED <<funnelVars, chartVars, metrics_month, laborVars, portfolioVars,
                 labor_mix_fig, talent_fig>>

plot_talent_capability_matrix ==
  /\ team_df' = WithTalentColumns(team_df)
  /\ talent_fig' = TalentFigure(WithTalentColumns(team_df))
  /\ UNCHANGED <<funnelVars, chartVars, metrics_month, laborVars, portfolioVars,
                 labor_mix_fig>>

\* rows held by the five tables together
TotalRows ==
  Len(initiatives_df) + Len(pipeline_df) + Len(metrics_df) + Len(ai_adoption_data)
    + Len(team_df)

\* generate_master_data filling the tables, a row at a time
LoadTableRow ==
  /\ TotalRows < CallRows
  /\ \/ AddInitiative
     \/ AddOpportunity
     \/ AddSample
     \/ DrawLaborMixRow
     \/ AddTeamMember

\* the dashboard: the data, then the five plot functions in any order
NextCalls ==
  \/ LoadTableRow
  \/ generate_master_data
  \/ plot_portfolio_priority_matrix
  \/ plot_enhanced_funnel
  \/ plot_process_control_chart
  \/ plot_digital_labor_mix
  \/ plot_talent_capability_matrix

SpecCalls == Init /\ [][NextCalls]_vars

-----------------------------------------------------------------------------
Next == NextFunnel \/ NextChart \/ NextLabor \/ NextPortfolio \/ NextCalls

Spec == Init /\ [][Next]_vars

-----------------------------------------------------------------------------
(* Reference quantities, taken directly from the input tables *)

\* the rows of pipeline_df in stage s
RowsInStage(s) == {i \in DOMAIN pipeline_df : pipeline_df[i].Stage = s}

NumInStage(s) == Cardinality(RowsInStage(s))

RECURSIVE SumEstValue(_)
SumEstValue(idx) ==
  IF idx = {} THEN 0
  ELSE LET i == CHOOSE j \in idx : TRUE
       IN  pipeline_df[i].Est_Value_USD_yr + SumEstValue(idx \ {i})

ValueInStage(s) == SumEstValue(RowsInStage(s))

FunnelDone == stage_counts # <<>>

-----------------------------------------------------------------------------
(* Funnel claims *)

\* C1: for every stage i > 0 whose preceding stage has no opportunities
\* (count 0), the reported conversion rate is the NaN sentinel, never a
\* number such as 100 or infinity.
C1_RateNullWhenPriorStageEmpty ==
  FunnelDone =>
    \A i \in 2..Len(STAGES) :
      NumInStage(STAGES[i - 1]) = 0 => IsNaN(stage_counts[i].Conversion_Rate)

\* C2: the conversion rate reported for stage 0 ('1. Identification') is
\* exactly 100 for every opportunity collection, empty ones included.
C2_FirstStageRateIs100 ==
  FunnelDone =>
    /\ stage_counts[1].Stage = "1. Identification"
    /\ IsFinite(stage_counts[1].Conversion_Rate)
    /\ stage_counts[1].Conversion_Rate.num = 100 * stage_counts[1].Conversion_Rate.den

\* C2 witness: the funnel was computed over a non-empty pipeline whose first
\* stage holds no opportunity, and stage 0 reports 100.
C2_Witness ==
  /\ FunnelDone
  /\ pipeline_df # <<>>
  /\ NumInStage(STAGES[1]) = 0
  /\ FEq(stage_counts[1].Conversion_Rate, Num(100))

\* C3: the funnel output has exactly the four canonical stages in order, each
\* with count = number of opportunities in the stage and value = sum of their
\* estimated values; a stage without opportunities has count 0 and value 0.
C3_CanonicalStagesWithZeroFill ==
  FunnelDone =>
    /\ Len(stage_counts) = Len(STAGES)
    /\ \A i \in DOMAIN STAGES :
         /\ stage_counts[i].Stage = STAGES[i]
         /\ FEq(stage_counts[i].Count, Num(NumInStage(STAGES[i])))
         /\ FEq(stage_counts[i].Value, Num(ValueInStage(STAGES[i])))

\* C4: for every stage i > 0 whose preceding stage has count > 0, the
\* conversion rate equals count[i] / count[i-1] * 100, the denominator being
\* the immediately preceding stage.
C4_RateIsRatioToPrecedingStage ==
  FunnelDone =>
    \A i \in 2..Len(STAGES) :
      NumInStage(STAGES[i - 1]) > 0 =>
        FEq(stage_counts[i].Conversion_Rate,
            [num |-> 100 * NumInStage(STAGES[i]), den |-> NumInStage(STAGES[i - 1])])

-----------------------------------------------------------------------------
(* Control-chart claims.  Reference statistics on integers:                  *)
(*   mean = S/n,  variance = D / (n(n-1)) with D = n*Q - S^2.                 *)
SampleN == Len(metrics_df)

SampleS == SumSeq(metrics_df)

RECURSIVE SumSquares(_)
SumSquares(col) == IF col = <<>> THEN 0 ELSE Head(col) * Head(col) + SumSquares(Tail(col))

SampleD == SampleN * SumSquares(metrics_df) - SampleS * SampleS

\* mean - 3 sigma >= 0, i.e. mean >= 0 and mean^2 >= 9 * variance
LowerLimitNonNegative ==
  /\ SampleS >= 0
  /\ SampleS * SampleS * (SampleN - 1) >= 9 * SampleN * SampleD

\* mean + k sigma as a chart number
MeanPlusSigmas(k) ==
  [a |-> SampleS * (SampleN - 1), k |-> k,
   r |-> SampleN * (SampleN - 1) * SampleD, d |-> SampleN * (SampleN - 1)]

\* sample i lies strictly above mean + 3 sigma
Above3Sigma(i) ==
  LET dev == SampleN * metrics_df[i] - SampleS
  IN  /\ SampleN >= 2
      /\ dev > 0
      /\ dev * dev * (SampleN - 1) > 9 * SampleN * SampleD

IsConstantSeries == \A i \in DOMAIN metrics_df : metrics_df[i] = metrics_df[1]

\* C5: the lower control limit is max(0, mean - 3*stdDev), hence >= 0 in every
\* result, also when mean - 3*stdDev is negative; the upper control limit is
\* mean + 3*stdDev.
C5_LowerLimitClampedUpperLimit3Sigma ==
  chart.computed =>
    /\ RGe(chart.lcl, RInt(0))
    /\ SampleN >= 2 =>
         /\ REq(chart.ucl, MeanPlusSigmas(3))
         /\ LowerLimitNonNegative => REq(chart.lcl, MeanPlusSigmas(-3))
         /\ ~LowerLimitNonNegative => REq(chart.lcl, RInt(0))

\* C5 witness: a chart over a varying series of positive mean whose
\* mean - 3 sigma is negative, with the lower limit reported as 0.
C5_Witness ==
  /\ chart.computed
  /\ SampleN >= 2
  /\ SampleS > 0
  /\ SampleD > 0
  /\ ~LowerLimitNonNegative
  /\ RSign(MeanPlusSigmas(-3)) < 0
  /\ REq(chart.lcl, RInt(0))

C8_InsufficientDataBelowTwoSamples ==
  (chart.computed /\ SampleN < 2) =>
    /\ chart.outcome = "InsufficientData"
    /\ RIsNaN(chart.lcl)
    /\ RIsNaN(chart.ucl)

-----------------------------------------------------------------------------
(* Composition-normalization claims *)
NormDone == ai_adoption_df_norm # <<>>

Clamped(v) == IF v < 0 THEN 0 ELSE v

\* row sum of the drawn row i after clamping its negative components
ClampedSum(i) ==
  Clamped(ai_adoption_data[i]["Manual"]) + Clamped(ai_adoption_data[i]["AI_Assisted"])
    + Clamped(ai_adoption_data[i]["Fully_Agentic"])

FAdd(x, y) == [num |-> x.num * y.den + y.num * x.den, den |-> x.den * y.den]

C10_PositiveRowNormalizesTo100 ==
  NormDone =>
    \A i \in DOMAIN ai_adoption_data :
      /\ \A c \in LabelSet : ai_adoption_df[i][c] = Clamped(ai_adoption_data[i][c])
      /\ ClampedSum(i) > 0 =>
           /\ \A c \in LabelSet :
                LET x == ai_adoption_df_norm[i][c]
                IN  /\ IsFinite(x) /\ x.den > 0
                    /\ x.num * ClampedSum(i) = 100 * Clamped(ai_adoption_data[i][c]) * x.den
                    /\ 0 <= x.num /\ x.num <= 100 * x.den
           /\ FEq(FAdd(FAdd(ai_adoption_df_norm[i]["Manual"],
                            ai_adoption_df_norm[i]["AI_Assisted"]),
                       ai_adoption_df_norm[i]["Fully_Agentic"]),
                  Num(100))

\* C10 witness: a normalized row that had a negative component and a positive
\* clamped sum.
C10_Witness ==
  /\ NormDone
  /\ \E i \in DOMAIN ai_adoption_data :
       /\ \E c \in LabelSet : ai_adoption_data[i][c] < 0 /\ FEq(ai_adoption_df_norm[i][c], Num(0))
       /\ \E c \in LabelSet : ai_adoption_data[i][c] > 0 /\ ~FEq(ai_adoption_df_norm[i][c], Num(100))
       /\ ClampedSum(i) > 0

-----------------------------------------------------------------------------
(* Portfolio claims.  Reference comparisons on integers: value >= mean is     *)
(* n * value >= sum.                                                          *)
NumInits == Len(initiatives_df)

RECURSIVE SumColumn(_, _)
SumColumn(name, n) ==
  IF n = 0 THEN 0 ELSE initiatives_df[n][name] + SumColumn(name, n - 1)

ImpactGeAvg(i) ==
  NumInits * initiatives_df[i].Expected_Annual_ROI_USD
    >= SumColumn("Expected_Annual_ROI_USD", NumInits)

MaturityGeAvg(i) ==
  NumInits * initiatives_df[i].Percent_Complete >= SumColumn("Percent_Complete", NumInits)

ImpactOnAvg(i) ==
  NumInits * initiatives_df[i].Expected_Annual_ROI_USD
    = SumColumn("Expected_Annual_ROI_USD", NumInits)

MaturityOnAvg(i) ==
  NumInits * initiatives_df[i].Percent_Complete = SumColumn("Percent_Complete", NumInits)

\* the quadrant the claim gives initiative i (ties take the >= branch)
ClaimedQuadrant(i) ==
  IF ImpactGeAvg(i)
  THEN IF MaturityGeAvg(i) THEN "Monitor & Complete" ELSE "Strategic Focus"
  ELSE IF MaturityGeAvg(i) THEN "Quick Wins" ELSE "Nurture & Develop"

\* -1, 0, 1: where the finite float x lies relative to the finite float y
FCmp(x, y) == Sgn(x.num * y.den - y.num * x.den) * Sgn(x.den) * Sgn(y.den)

\* p and q lie strictly on the same side of the line
SameSide(p, q, line) ==
  /\ IsFinite(p) /\ IsFinite(q) /\ IsFinite(line)
  /\ FCmp(p, line) # 0
  /\ FCmp(p, line) = FCmp(q, line)

\* the quadrant labels the figure shows in the region that holds marker i
FigureQuadrants(i) ==
  { a.text : a \in { b \in portfolio_fig.annotations :
                       /\ SameSide(portfolio_fig.markers[i].x, b.x, portfolio_fig.vline)
                       /\ SameSide(portfolio_fig.markers[i].y, b.y, portfolio_fig.hline) } }

ThresholdsAreMeans ==
  /\ IsFinite(portfolio_fig.vline) /\ IsFinite(portfolio_fig.hline)
  /\ portfolio_fig.vline.num * NumInits
       = SumColumn("Expected_Annual_ROI_USD", NumInits) * portfolio_fig.vline.den
  /\ portfolio_fig.hline.num * NumInits
       = SumColumn("Percent_Complete", NumInits) * portfolio_fig.hline.den

\* C11: for a non-empty initiative collection the thresholds are the two means
\* and every initiative is assigned exactly one quadrant by comparing impact
\* and maturity with them, a value equal to its average taking the >= branch.
C11_EveryInitiativeInItsQuadrant ==
  (portfolio_fig.drawn /\ NumInits > 0) =>
    /\ ThresholdsAreMeans
    /\ \A i \in DOMAIN initiatives_df : FigureQuadrants(i) = {ClaimedQuadrant(i)}

\* The part of C11 the chart does decide: thresholds, and the quadrant of
\* every initiative that lies strictly off both dividing lines.
PortfolioStrictQuadrants ==
  (portfolio_fig.drawn /\ NumInits > 0) =>
    /\ ThresholdsAreMeans
    /\ \A i \in DOMAIN initiatives_df :
         IF ImpactOnAvg(i) \/ MaturityOnAvg(i)
         THEN FigureQuadrants(i) = {}
         ELSE FigureQuadrants(i) = {ClaimedQuadrant(i)}

-----------------------------------------------------------------------------
(* Frame claim *)

\* the tables handed to the five plot functions
InputTables ==
  <<initiatives_df, pipeline_df, metrics_df, metrics_month, ai_adoption_df_norm, team_df>>

\* one invocation of one of the five plot functions
AnalyticCall ==
  \/ plot_portfolio_priority_matrix
  \/ plot_enhanced_funnel
  \/ plot_process_control_chart
  \/ plot_digital_labor_mix
  \/ plot_talent_capability_matrix

\* C12: whatever the sequence of invocations of the five plot functions, each
\* invocation leaves every input table as it was: same columns, same cell
\* values; only new derived records are produced.
C12_CallsLeaveInputsUnchanged == [][AnalyticCall => UNCHANGED InputTables]_vars

\* The three functions that do keep their inputs: the funnel, the control
\* chart (whose Month write stores the timestamps already there) and the
\* labor-mix chart.
ReadOnlyCallsLeaveInputsUnchanged ==
  [][(plot_enhanced_funnel \/ plot_process_control_chart \/ plot_digital_labor_mix)
       => UNCHANGED InputTables]_vars

====
